---- MODULE Spec2Model ----
(***************************************************************************)
(* A model of sshkernel's SSHWrapperParamiko: the session object, the      *)
(* polling read-until-prompt loop, the command executor, the completion    *)
(* filter and the connect/close lifecycle, run against a byte channel      *)
(* whose remote end is the environment.                                    *)
(*                                                                         *)
(* Text is a sequence of one-character strings.  Control characters are    *)
(* written as tokens: "^U" is 0x15, "^C" is 0x03.  Bytes on the channel    *)
(* are the same tokens, plus the two bytes "C3" "A9" of one two-byte       *)
(* UTF-8 character, which decodes to "U+E9"; "U+FFFD" is the replacement   *)
(* character.                                                              *)
(***************************************************************************)
EXTENDS Integers, Sequences, FiniteSets, TLC

\* ------------------------------------------------------------------ text

LowerSeq == <<"a","b","c","d","e","f","g","h","i","j","k","l","m",
              "n","o","p","q","r","s","t","u","v","w","x","y","z">>
UpperSeq == <<"A","B","C","D","E","F","G","H","I","J","K","L","M",
              "N","O","P","Q","R","S","T","U","V","W","X","Y","Z">>
DigitSeq == <<"0","1","2","3","4","5","6","7","8","9">>

Range(f) == { f[i] : i \in DOMAIN f }

LowerLetters == Range(LowerSeq)
UpperLetters == Range(UpperSeq)
Digits == Range(DigitSeq)

\* [a-zA-Z0-9\-_]
IdentChars == LowerLetters \cup UpperLetters \cup Digits \cup {"-", "_"}

\* \s, and the characters str.strip() removes
Whitespace == {" ", "\t", "\n", "\r"}

PromptEndChars == {"%", ">", "#"}

Min(a, b) == IF a < b THEN a ELSE b

\* str.lower() on one character
LowerChar(c) ==
    IF c \in UpperLetters
    THEN LowerSeq[CHOOSE i \in DOMAIN UpperSeq : UpperSeq[i] = c]
    ELSE c

\* str.lower()
ToLower(s) == [i \in DOMAIN s |-> LowerChar(s[i])]

\* str.startswith
StartsWith(s, p) == Len(p) <= Len(s) /\ SubSeq(s, 1, Len(p)) = p

\* str.endswith
EndsWith(s, p) == Len(p) <= Len(s) /\ SubSeq(s, Len(s) - Len(p) + 1, Len(s)) = p

\* a slice that cuts nothing off
KeepAll(s, n) == s

\* s[:-n] for n > 0
DropLast(s, n) == SubSeq(s, 1, Len(s) - n)

\* str.strip()
Strip(s) ==
    IF \A i \in DOMAIN s : s[i] \in Whitespace
    THEN << >>
    ELSE LET nonws == { i \in DOMAIN s : s[i] \notin Whitespace }
             first == CHOOSE i \in nonws : \A j \in nonws : i <= j
             last  == CHOOSE i \in nonws : \A j \in nonws : j <= i
         IN SubSeq(s, first, last)

\* str.split(sep) for a one-character separator: always at least one piece
RECURSIVE SplitOn(_, _)
SplitOn(s, sep) ==
    IF \A i \in DOMAIN s : s[i] # sep
    THEN << s >>
    ELSE LET k == CHOOSE i \in DOMAIN s : s[i] = sep /\ \A j \in 1..(i - 1) : s[j] # sep
         IN << SubSeq(s, 1, k - 1) >> \o SplitOn(SubSeq(s, k + 1, Len(s)), sep)

\* "x in s" for strings
Contains(s, p) == \E i \in 0..(Len(s) - Len(p)) : SubSeq(s, i + 1, i + Len(p)) = p

\* the concatenation of a sequence of strings
RECURSIVE Flatten(_)
Flatten(ss) == IF ss = << >> THEN << >> ELSE Head(ss) \o Flatten(Tail(ss))

\* printable ASCII characters in the order of their codes: 32-33, 35-91,
\* 93-95 and 97-126 (the double quote, the backslash and the backquote are
\* left out)
Ascii32 == <<" ","!">>
Ascii35 == <<"#","$","%","&","'","(",")","*","+",",","-",".","/","0","1","2","3","4","5","6","7","8","9",":",";","<","=",">","?","@","A","B","C","D","E","F","G","H","I","J","K","L","M","N","O","P","Q","R","S","T","U","V","W","X","Y","Z","[">>
Ascii93 == <<"]","^","_">>
Ascii97 == <<"a","b","c","d","e","f","g","h","i","j","k","l","m","n","o","p","q","r","s","t","u","v","w","x","y","z","{","|","}","~">>

IndexOf(seq, c) == CHOOSE i \in DOMAIN seq : seq[i] = c

\* ord(c)
Code(c) ==
    CASE c = "\t" -> 9
      [] c = "\n" -> 10
      [] c = "\r" -> 13
      [] c = "^C" -> 3
      [] c = "^U" -> 21
      [] c = "U+E9" -> 233
      [] c = "U+FFFD" -> 65533
      [] c \in Range(Ascii32) -> 31 + IndexOf(Ascii32, c)
      [] c \in Range(Ascii35) -> 34 + IndexOf(Ascii35, c)
      [] c \in Range(Ascii93) -> 92 + IndexOf(Ascii93, c)
      [] OTHER -> 96 + IndexOf(Ascii97, c)

\* a <= b for strings: the order of their characters' codes
StrLE(a, b) ==
    LET differ == { i \in 1..Min(Len(a), Len(b)) : a[i] # b[i] }
        k == CHOOSE i \in differ : \A j \in differ : i <= j
    IN IF differ = {} THEN Len(a) <= Len(b) ELSE Code(a[k]) < Code(b[k])

\* str.splitlines() over "\n", "\r" and "\r\n": no empty last piece
RECURSIVE SplitLines(_)
SplitLines(s) ==
    IF s = << >> THEN << >>
    ELSE IF \A i \in DOMAIN s : s[i] \notin {"\n", "\r"} THEN << s >>
    ELSE LET k == CHOOSE i \in DOMAIN s :
                      s[i] \in {"\n", "\r"} /\ \A j \in 1..(i - 1) : s[j] \notin {"\n", "\r"}
             n == IF s[k] = "\r" /\ k < Len(s) /\ s[k + 1] = "\n" THEN k + 1 ELSE k
         IN << SubSeq(s, 1, k - 1) >> \o SplitLines(SubSeq(s, n + 1, Len(s)))

\* the place of the last space of s, 0 when it has none
LastSpace(s) ==
    IF \A i \in DOMAIN s : s[i] # " " THEN 0
    ELSE CHOOSE i \in DOMAIN s : s[i] = " " /\ \A j \in (i + 1)..Len(s) : s[j] # " "

\* s.split('  ', 1)[0]: what precedes the first two spaces in a row
BeforeDoubleSpace(s) ==
    LET at == { i \in 1..(Len(s) - 1) : s[i] = " " /\ s[i + 1] = " " }
    IN IF at = {} THEN s
       ELSE SubSeq(s, 1, (CHOOSE i \in at : \A j \in at : i <= j) - 1)

\* ------------------------------------------------- regular expressions
\* A regular expression is run as a set of positions: p is the number of
\* characters consumed so far.  re.search tries every start position.

ReLit(s, P, lit) ==
    { p + Len(lit) : p \in { q \in P : q + Len(lit) <= Len(s)
                                       /\ SubSeq(s, q + 1, q + Len(lit)) = lit } }

\* a character class: the characters it lists, or all but those
InClass(c, cls) == (c \in cls.of) # cls.negated

ReOne(s, P, cls) ==
    { p + 1 : p \in { q \in P : q < Len(s) /\ InClass(s[q + 1], cls) } }

RePlus(s, P, cls) ==
    UNION { { e \in (p + 1)..Len(s) : \A i \in (p + 1)..e : InClass(s[i], cls) }
            : p \in P }

ReStar(s, P, cls) == P \cup RePlus(s, P, cls)

\* an end-of-buffer test that any position passes
ReAnywhere(s, P) == P # {}

\* "$" without re.MULTILINE: the end, or just before a final newline
ReAtEnd(s, P) ==
    \E p \in P : p = Len(s) \/ (p = Len(s) - 1 /\ s[Len(s)] = "\n")

IdentClass == [of |-> IdentChars, negated |-> FALSE]
DigitClass == [of |-> Digits, negated |-> FALSE]
SpaceClass == [of |-> Whitespace, negated |-> FALSE]
PromptEndClass == [of |-> PromptEndChars, negated |-> FALSE]
NotRBracket == [of |-> {"]"}, negated |-> TRUE]

MasterOpen == <<"{","m","a","s","t","e","r",":">>
EditOpen == <<"[","e","d","i","t">>
PendingChanges == <<"(","p","e","n","d","i","n","g"," ","c","h","a","n","g","e","s",")">>

\* (?:\{master:\d+\})?(?:\[edit[^\]]*\])?[a-zA-Z0-9\-_]+@[a-zA-Z0-9\-_]+[%>#]
PromptCore(s) ==
    LET p0 == 0..Len(s)
        p1 == p0 \cup ReLit(s, RePlus(s, ReLit(s, p0, MasterOpen), DigitClass), <<"}">>)
        p2 == p1 \cup ReLit(s, ReStar(s, ReLit(s, p1, EditOpen), NotRBracket), <<"]">>)
        p3 == RePlus(s, p2, IdentClass)
        p4 == ReLit(s, p3, <<"@">>)
        p5 == RePlus(s, p4, IdentClass)
    IN ReOne(s, p5, PromptEndClass)

\* the reader's pattern: ...[%>#](?:\s+\(pending changes\))?\s*$
IsTerminatingPrompt(s) ==
    LET p6 == PromptCore(s)
        p7 == p6 \cup ReLit(s, RePlus(s, p6, SpaceClass), PendingChanges)
    IN ReAtEnd(s, ReStar(s, p7, SpaceClass))

\* the executor's pattern for the last line: ...[%>#]\s*$
IsPromptLine(s) == ReAtEnd(s, ReStar(s, PromptCore(s), SpaceClass))

ErrorMarkers ==
    { <<"e","r","r","o","r",":">>,
      <<"u","n","k","n","o","w","n"," ","c","o","m","m","a","n","d",".">>,
      <<"s","y","n","t","a","x"," ","e","r","r","o","r",".">>,
      <<"i","n","v","a","l","i","d"," ","c","o","m","m","a","n","d",".">> }

\* any(re.search(pattern, line.lower()) for pattern in error_patterns),
\* each pattern being ^\s* followed by the marker
IsErrorLine(line) ==
    LET l == ToLower(line)
    IN \E m \in ErrorMarkers : ReLit(l, ReStar(l, {0}, SpaceClass), m) # {}

\* ------------------------------------------------------ pagination
MoreMarker == <<"-","-","-","(","m","o","r","e",")","-","-","-">>
MoreMarker100 == <<"-","-","-","(","m","o","r","e"," ","1","0","0","%",")","-","-","-">>

MoreLen == 12
More100Len == 17

\* chunk.decode('utf-8', errors='replace') over the model's bytes: the pair
\* "C3" "A9" is one character, a lead byte without its continuation and a
\* continuation byte on its own are each replaced
Decode(bs) ==
    LET paired(i) == bs[i] = "A9" /\ i > 1 /\ bs[i - 1] = "C3"
        kept == { i \in DOMAIN bs : ~paired(i) }
        nth(k) == CHOOSE i \in kept : Cardinality({ j \in kept : j <= i }) = k
        char(i) == IF bs[i] = "C3"
                   THEN (IF i < Len(bs) /\ bs[i + 1] = "A9" THEN "U+E9" ELSE "U+FFFD")
                   ELSE IF bs[i] = "A9" THEN "U+FFFD"
                   ELSE bs[i]
    IN IF \A i \in DOMAIN bs : bs[i] \notin {"C3", "A9"} THEN bs
       ELSE [k \in 1..Cardinality(kept) |-> char(nth(k))]

\* ------------------------------------------------------------ bounds
\* the reader's deadline in poll intervals (timeout / 0.1 s, scaled down)
TimeoutTicks == 2
\* the pagination-space counter stops counting here
MaxSpaces == 3

\* ------------------------------------------------------------- state
VARIABLES
    client,         \* self._client: 0 is None, else the SSHClient's id
    shell_channel,  \* self._shell_channel: 0 is None, else the channel's id
    connected,      \* self.__connected
    host,           \* self._host
    openT,          \* environment: ids of the clients whose transport is open
    openC,          \* environment: open channels, as <<channel id, client id>>
    alive,          \* environment: the remote end of the shell channel is up
    pending,        \* environment: packets in flight towards the reader
    held,           \* environment: pages the remote pager holds back
    endless,        \* environment: the pager answers every space with a page
    emitted,        \* history: the reply chosen for the operation's command
    op,             \* the public operation in progress, or "idle"
    pc,             \* the read the operation is waiting on
    arg,            \* the operation's argument
    status,         \* exec_command's has_error, kept across the re-sync
    rd,             \* the reader: "off", "run", "ok", "timeout", "fault"
    buf,            \* the reader's buffer
    fed,            \* history: the text of the chunks the reader has received
    elapsed,        \* poll intervals slept since the reader started
    spaces,         \* pagination spaces the reader wrote in this run
    sent,           \* history: the operation's writes to the channel
    sink,           \* history: what the operation gave print_function
    ret,            \* history: how the last operation ended
    phase,          \* _get_completions: the query under way, "set" or "full"
    cands,          \* _get_completions_question_mark's completions
    result,         \* the list get_completions returns
    before,         \* history: the session as the operation found it
    parked,         \* the call of a second call site while it is not running
    sshwrapper,     \* the kernel's _sshwrapper: 0 is None, else the id of the
                    \* client of the wrapper it refers to
    login           \* do_login is between its do_logout() and its assignment

sessionVars == << client, shell_channel, connected, host >>
envVars == << openT, openC, alive, pending, held, endless >>
opVars == << op, pc, arg, status >>
rdVars == << rd, buf, fed, elapsed, spaces >>
histVars == << emitted, sent, sink, ret >>
complVars == << phase, cands, result >>
vars == << client, shell_channel, connected, host, openT, openC, alive,
           pending, held, endless, emitted, op, pc, arg, status,
           rd, buf, fed, elapsed, spaces, sent, sink, ret, phase, cands, result,
           before, parked, sshwrapper, login >>
outerVars == << parked, sshwrapper, login >>

\* the session as an operation finds it when it is called, whether
\* nothing was in flight on its channel then, and how the operation before
\* it had ended
Snapshot ==
    [client |-> client, channel |-> shell_channel, connected |-> connected,
     host |-> host, openT |-> openT, openC |-> openC,
     quiet |-> (pending = << >>), prior |-> before.prior]

NoSnapshot ==
    [client |-> 0, channel |-> 0, connected |-> FALSE, host |-> << >>,
     openT |-> {}, openC |-> {}, quiet |-> TRUE, prior |-> ""]

NoReply ==
    [pk |-> << >>, held |-> << >>, endless |-> FALSE, kind |-> "silent",
     lines |-> << >>, prompt |-> << >>]

\* what a call keeps to itself: its position, its locals, its reader's
\* locals (lines 145-146) and its history
Frame ==
    [op |-> op, pc |-> pc, arg |-> arg, status |-> status, rd |-> rd,
     buf |-> buf, fed |-> fed, elapsed |-> elapsed, spaces |-> spaces,
     emitted |-> emitted, sent |-> sent, sink |-> sink, ret |-> ret,
     phase |-> phase, cands |-> cands, result |-> result, before |-> before]

\* a call site that is in no call
IdleFrame ==
    [op |-> "idle", pc |-> "", arg |-> << >>, status |-> 0, rd |-> "off",
     buf |-> << >>, fed |-> << >>, elapsed |-> 0, spaces |-> 0,
     emitted |-> NoReply, sent |-> << >>, sink |-> << >>, ret |-> "",
     phase |-> "", cands |-> << >>, result |-> << >>, before |-> NoSnapshot]

\* the smallest id not in use
FreshId(used) == CHOOSE n \in 1..(Cardinality(used) + 1) : n \notin used


\* --------------------------------------------------- the remote end
\* the most packets in flight, and the most pages held back, at once
MaxPackets == 2
MaxHeld == 1

Prompt == <<"u","@","h",">"," ">>
NL == <<"\n">>

\* what the remote shell may answer to a command line w (the command and
\* its newline, which the terminal echoes): packets now, pages behind a
\* pager, and the output lines and the prompt the stream consists of
CommandReplies(w) ==
    LET R(kind, pk, hl, lines, prompt) ==
            [pk |-> pk, held |-> hl, endless |-> FALSE, kind |-> kind,
             lines |-> lines, prompt |-> prompt]
        ok == <<"o","k">>
        err == <<" ","E","r","r","o","r",":"," ","x">>
        mid == <<"n","o"," ","e","r","r","o","r",":"," ","x">>
        ann == <<"u","@","h","#"," ">> \o PendingChanges
        pnl == <<"u","@","h",">","\n">>
        like == <<"u","@","h",">">>
    IN { R("ok", << w \o ok \o NL \o Prompt >>, << >>, << ok >>, Prompt),
         R("split", << w \o ok \o NL, Prompt >>, << >>, << ok >>, Prompt),
         R("err", << w \o err \o NL \o Prompt >>, << >>, << err >>, Prompt),
         R("mid", << w \o mid \o NL \o Prompt >>, << >>, << mid >>, Prompt),
         R("errok", << w \o err \o NL \o ok \o NL \o Prompt >>, << >>,
           << err, ok >>, Prompt),
         R("ann", << w \o ok \o NL \o ann >>, << >>, << ok >>, ann),
         R("pnl", << w \o ok \o NL \o pnl >>, << >>, << ok >>, pnl),
         R("like", << w \o like \o NL, ok \o NL \o Prompt >>, << >>,
           << like, ok >>, Prompt),
         R("utf", << w \o <<"C3">>, <<"A9">> \o NL \o Prompt >>, << >>,
           << <<"U+E9">> >>, Prompt),
         R("paged", << w \o ok \o MoreMarker >>, << << ok \o NL \o Prompt >> >>,
           << ok \o ok >>, Prompt),
         R("paged100", << w \o ok, MoreMarker100 >>, << << NL \o Prompt >> >>,
           << ok >>, Prompt),
         R("pagedlike", << w \o like \o NL \o MoreMarker >>,
           << << ok \o NL \o Prompt >> >>, << like, ok >>, Prompt),
         [pk |-> << w \o MoreMarker >>, held |-> << >>, endless |-> TRUE,
          kind |-> "endless", lines |-> << >>, prompt |-> << >>] }

\* the replies of a shell that prints one line and a prompt, or pages
PlainKinds == {"ok", "paged"}

\* every kind of reply
AllKinds == { r.kind : r \in CommandReplies(<< >>) }

\* the answer to anything else written (a blank or cleared line, a
\* configuration command, a cancel byte), and the login banner: a prompt
PromptReplies(w) ==
    { [pk |-> << w \o Prompt >>, held |-> << >>, endless |-> FALSE,
       kind |-> "prompt", lines |-> << >>, prompt |-> Prompt] }

Fits(r) ==
    /\ Len(pending) + Len(r.pk) <= MaxPackets
    /\ Len(r.held) <= MaxHeld

\* the remote answers with one of rs, or with nothing
Offered(rs) == { r \in rs : Fits(r) } \cup { NoReply }

\* a line written to the remote ends whatever its pager still held back
Deliver(r) ==
    /\ pending' = pending \o r.pk
    /\ held' = r.held
    /\ endless' = r.endless

\* self._shell_channel.send(...) raises on None and on a closed channel
SendOutcome ==
    IF shell_channel = 0 THEN "AttributeError"
    ELSE IF ~alive THEN "Fault"
    ELSE "ok"

\* the remote end goes away, and what was in flight with it
Hangup ==
    /\ UNCHANGED outerVars
    /\ shell_channel # 0
    /\ alive
    /\ alive' = FALSE
    /\ pending' = << >>
    /\ held' = << >>
    /\ endless' = FALSE
    /\ UNCHANGED << sessionVars, openT, openC, opVars, rdVars, histVars >>
    /\ UNCHANGED << complVars, before >>

\* ------------------------------------------------------- the reader
\* time.time() - start_time > timeout
DeadlinePassed(e) == e > TimeoutTicks

\* lines 168-171: the deadline check and the sleep that end an iteration
CheckDeadline ==
    IF DeadlinePassed(elapsed)
    THEN rd' = "timeout" /\ UNCHANGED elapsed
    ELSE rd' = rd /\ elapsed' = elapsed + 1

\* an iteration in which recv_ready() is false
ReaderNotReady ==
    /\ UNCHANGED outerVars
    /\ rd = "run"
    /\ CheckDeadline
    /\ UNCHANGED << sessionVars, envVars, opVars, buf, fed, spaces, histVars >>
    /\ UNCHANGED << complVars, before >>

\* the page an endless pager shows next: its two markers take turns
NextMarker(n) == IF n = MoreLen THEN MoreMarker100 ELSE MoreMarker

\* lines 154-161: a "more" marker at the end of the buffer: ask for the
\* next page, cut the marker off, and poll again without the deadline check
ReaderPage(b, n, rest) ==
    IF SendOutcome = "ok"
    THEN /\ spaces' = Min(spaces + 1, MaxSpaces)
         /\ buf' = DropLast(b, n)
         /\ IF held # << >>
            THEN pending' = rest \o Head(held) /\ held' = Tail(held)
            ELSE /\ held' = held
                 /\ pending' = IF endless THEN rest \o << NextMarker(n) >> ELSE rest
         /\ UNCHANGED << rd, elapsed >>
    ELSE /\ rd' = "fault"
         /\ buf' = b
         /\ pending' = rest
         /\ UNCHANGED << held, elapsed, spaces >>

\* the history of the text received, d being the chunk just read: a chunk
\* that is a marker and no more is not recorded any longer once the
\* space counter has stopped counting
Fed(d) ==
    IF spaces = MaxSpaces /\ d \in {MoreMarker, MoreMarker100} THEN fed ELSE fed \o d

\* an iteration in which recv_ready() is true: the packets that have
\* arrived are read, decoded and appended
ReaderRecv ==
    /\ UNCHANGED outerVars
    /\ rd = "run"
    /\ \E j \in 1..Len(pending) :
       \E d \in { Decode(Flatten(SubSeq(pending, 1, j))) } :
       \E b \in { buf \o d } :
         LET rest == SubSeq(pending, j + 1, Len(pending))
         IN /\ fed' = Fed(d)
            /\ IF EndsWith(b, MoreMarker) THEN ReaderPage(b, MoreLen, rest)
               ELSE IF EndsWith(b, MoreMarker100) THEN ReaderPage(b, More100Len, rest)
               ELSE /\ buf' = b
                    /\ pending' = rest
                    /\ UNCHANGED << held, spaces >>
                    /\ IF IsTerminatingPrompt(b)
                       THEN rd' = "ok" /\ UNCHANGED elapsed
                       ELSE CheckDeadline
    /\ UNCHANGED << sessionVars, openT, openC, alive, endless, opVars, histVars >>
    /\ UNCHANGED << complVars, before >>

\* a read that starts with the buffer the read before it has left
StartReadKeeping(site) ==
    /\ pc' = site
    /\ rd' = "run"
    /\ buf' = buf
    /\ fed' = << >>
    /\ elapsed' = 0
    /\ spaces' = 0

\* a call of _read_until_prompt, waited on at site
StartRead(site) ==
    /\ pc' = site
    /\ rd' = "run"
    /\ buf' = << >>
    /\ fed' = << >>
    /\ elapsed' = 0
    /\ spaces' = 0

\* the operation ends: r is its return value or the exception it raises
Finish(r) ==
    /\ pc' = "done"
    /\ ret' = r
    /\ rd' = "off"
    /\ buf' = << >>
    /\ fed' = << >>
    /\ elapsed' = 0
    /\ spaces' = 0

\* how the operation that has ended looks to the next one: an
\* exec_command that returned 1 for a command other than the diagnostic of
\* lines 244-246 has failed
Outcome ==
    IF op = "exec" /\ ret = "1" /\ ~StartsWith(arg, <<"_","_">>)
    THEN "exec failed"
    ELSE ""

\* the caller takes the result; the histories start afresh
Return ==
    /\ UNCHANGED outerVars
    /\ op # "idle"
    /\ pc = "done"
    /\ op' = "idle"
    /\ pc' = ""
    /\ arg' = << >>
    /\ status' = 0
    /\ emitted' = NoReply
    /\ sent' = << >>
    /\ sink' = << >>
    /\ ret' = ""
    /\ phase' = ""
    /\ cands' = << >>
    /\ result' = << >>
    /\ before' = [NoSnapshot EXCEPT !.prior = Outcome]
    /\ UNCHANGED << sessionVars, envVars, rdVars >>


\* what an operation can raise
Raised == {"NotConnected", "Timeout", "Fault", "AttributeError",
           "ConnectFailure", "SSHException"}

\* a write that succeeded, the remote's answer to it, and the read that
\* follows it
WriteThenRead(w, replies, site) ==
    /\ sent' = Append(sent, w)
    /\ \E r \in Offered(replies) : Deliver(r)
    /\ StartRead(site)

\* --------------------------------------------------------- lifecycle
Hosts == { <<"a">>, <<"u","@","b">>, <<"@","a","@","b">> }

NotAt == [of |-> {"@"}, negated |-> TRUE]

\* re.search("([^@]+)@(.*)", host): group(2) when it matches, else host
ParseHost(h) ==
    LET ends == ReLit(h, RePlus(h, 0..Len(h), NotAt), <<"@">>)
    IN IF ends = {} THEN h
       ELSE SubSeq(h, (CHOOSE e \in ends : \A f \in ends : e <= f) + 1, Len(h))

\* a close() that leaves the transport open
TransportsKept == openT

\* a close() that leaves the shell channel open
ChannelsKept == openC

\* close(): what it leaves of the open transports and channels
TransportsAfterClose == openT \ {client}
ChannelsAfterClose ==
    { c \in openC : c[1] # shell_channel /\ c[2] # client }

CloseCall ==
    /\ UNCHANGED outerVars
    /\ op = "idle"
    /\ op' = "close"
    /\ connected' = FALSE
    /\ openC' = ChannelsAfterClose
    /\ openT' = TransportsAfterClose
    /\ shell_channel' = 0
    /\ client' = 0
    /\ IF shell_channel # 0 \/ client # 0
       THEN pending' = << >> /\ held' = << >> /\ endless' = FALSE /\ alive' = FALSE
       ELSE UNCHANGED << pending, held, endless, alive >>
    /\ Finish("ok")
    /\ UNCHANGED << host, arg, status, emitted, sent, sink >>
    /\ UNCHANGED complVars
    /\ before' = Snapshot

CfgCompleteOff == <<"s","e","t"," ","c","l","i"," ","c","o","m","p","l","e","t","e","-","o","n","-","s","p","a","c","e"," ","o","f","f","\n">>
CfgScreenLength == <<"s","e","t"," ","c","l","i"," ","s","c","r","e","e","n","-","l","e","n","g","t","h"," ","0","\n">>
Banner == <<"h","i","\n">>

\* connect(host) up to its first read: lines 57-111
ConnectCall(h) ==
    /\ UNCHANGED outerVars
    /\ op = "idle"
    /\ op' = "connect"
    /\ arg' = h
    /\ LET wasOpen == client # 0
           ts == IF wasOpen THEN TransportsAfterClose ELSE openT
           cs == IF wasOpen THEN ChannelsAfterClose ELSE openC
           c == FreshId(ts)
           ch == FreshId({ x[1] : x \in cs })
       IN /\ client' = c
          /\ \/ \* self._client.connect(...) raises
                /\ connected' = (IF wasOpen THEN FALSE ELSE connected)
                /\ shell_channel' = (IF wasOpen THEN 0 ELSE shell_channel)
                /\ openT' = ts
                /\ openC' = cs
                /\ IF wasOpen
                   THEN pending' = << >> /\ held' = << >> /\ endless' = FALSE
                        /\ alive' = FALSE
                   ELSE UNCHANGED << pending, held, endless, alive >>
                /\ Finish("ConnectFailure")
                /\ UNCHANGED host
             \/ \* the transport is up, invoke_shell() raises
                /\ connected' = TRUE
                /\ host' = ParseHost(h)
                /\ shell_channel' = (IF wasOpen THEN 0 ELSE shell_channel)
                /\ openT' = ts \cup {c}
                /\ openC' = cs
                /\ IF wasOpen
                   THEN pending' = << >> /\ held' = << >> /\ endless' = FALSE
                        /\ alive' = FALSE
                   ELSE UNCHANGED << pending, held, endless, alive >>
                /\ Finish("SSHException")
             \/ \* the shell channel opens and the banner is awaited
                /\ connected' = TRUE
                /\ host' = ParseHost(h)
                /\ shell_channel' = ch
                /\ openT' = ts \cup {c}
                /\ openC' = cs \cup { << ch, c >> }
                /\ alive' = TRUE
                /\ held' = << >>
                /\ endless' = FALSE
                /\ \E r \in PromptReplies(Banner) \cup {NoReply} : pending' = r.pk
                /\ StartRead("banner")
                /\ UNCHANGED ret
    /\ UNCHANGED << status, emitted, sent, sink >>
    /\ UNCHANGED complVars
    /\ before' = Snapshot

\* a connect that disables paging before it disables completion on space
ConnectWriteSwapped(site) ==
    CASE site = "banner" -> CfgScreenLength
      [] site = "cfg1" -> CfgCompleteOff
      [] site = "cfg2" -> NL
      [] OTHER -> << >>

\* the write that follows each of connect's reads: lines 114-120
ConnectNextWrite(site) ==
    CASE site = "banner" -> CfgCompleteOff
      [] site = "cfg1" -> CfgScreenLength
      [] site = "cfg2" -> NL
      [] OTHER -> << >>

ConnectNextSite(site) ==
    CASE site = "banner" -> "cfg1"
      [] site = "cfg1" -> "cfg2"
      [] site = "cfg2" -> "nl"
      [] OTHER -> "done"

\* connect(host) after one of its reads: lines 111-121
ConnectStep ==
    /\ UNCHANGED outerVars
    /\ op = "connect"
    /\ pc \in {"banner", "cfg1", "cfg2", "nl"}
    /\ rd \in {"ok", "timeout", "fault"}
    /\ IF rd = "timeout" THEN Finish("Timeout") /\ UNCHANGED << sent, pending, held, endless >>
       ELSE IF rd = "fault" THEN Finish("Fault") /\ UNCHANGED << sent, pending, held, endless >>
       ELSE IF pc = "nl" THEN Finish("ok") /\ UNCHANGED << sent, pending, held, endless >>
       ELSE IF SendOutcome # "ok"
            THEN Finish(SendOutcome) /\ UNCHANGED << sent, pending, held, endless >>
       ELSE /\ WriteThenRead(ConnectNextWrite(pc), PromptReplies(ConnectNextWrite(pc)),
                             ConnectNextSite(pc))
            /\ UNCHANGED ret
    /\ UNCHANGED << sessionVars, openT, openC, alive, op, arg, status, emitted, sink >>
    /\ UNCHANGED << complVars, before >>


\* ------------------------------------------------------ the executor
TestPrefix == <<"_","_","t","e","s","t","_","c","o","m","p","l","e","t","i","o","n">>
Resync == <<"^U","\n">>

Commands == { <<" ","s","v"," ">>, TestPrefix \o <<" ","s">> }

\* cmd.split(" ", 1)[1] if " " in cmd else ""
AfterFirstSpace(cmd) ==
    IF \A i \in DOMAIN cmd : cmd[i] # " " THEN << >>
    ELSE LET k == CHOOSE i \in DOMAIN cmd :
                      cmd[i] = " " /\ \A j \in 1..(i - 1) : cmd[j] # " "
         IN SubSeq(cmd, k + 1, Len(cmd))

\* lines 260-262: the echoed command is dropped from the front
DropEcho(lines, cmd) ==
    IF lines # << >> /\ Strip(lines[1]) = Strip(cmd) THEN Tail(lines) ELSE lines

\* lines 263-264: a last line that is a prompt is dropped
DropPrompt(lines) ==
    IF lines # << >> /\ IsPromptLine(lines[Len(lines)])
    THEN SubSeq(lines, 1, Len(lines) - 1)
    ELSE lines

\* lines 260-264
OutputLines(output, cmd) == DropPrompt(DropEcho(SplitOn(output, "\n"), cmd))

\* a scan that finds no error
NoError(lines) == FALSE

\* a loop that stops forwarding at the first line with an error marker
ForwardUntilError(lines) ==
    LET bad == { i \in DOMAIN lines : IsErrorLine(lines[i]) }
        n == IF bad = {} THEN Len(lines)
             ELSE CHOOSE i \in bad : \A j \in bad : i <= j
    IN [i \in 1..n |-> [k |-> "out", t |-> lines[i] \o NL, e |-> ""]]

\* lines 274-277
HasError(lines) == \E i \in DOMAIN lines : IsErrorLine(lines[i])

\* what print_function is given: the kind of message, its text, and the
\* exception a message reports
SinkNotice(cmd) == [k |-> "notice", t |-> cmd, e |-> ""]
SinkLine(line) == [k |-> "out", t |-> line \o NL, e |-> ""]
SinkError(b) == [k |-> "error", t |-> b, e |-> "Timeout"]
SinkDebug == [k |-> "debug", t |-> << >>, e |-> ""]
SinkTestError(x) == [k |-> "debug", t |-> << >>, e |-> x]

\* lines 275-278: what the loop over the lines gives print_function
ForwardAll(lines) == [i \in DOMAIN lines |-> SinkLine(lines[i])]

StatusRet(st) == IF st = 1 THEN "1" ELSE "0"

\* a command line that is written as it was given
RawLine(cmd) == cmd \o NL

\* lines 249-253: the trimmed command and a newline
CommandLine(cmd) == Strip(cmd) \o NL

\* an isconnected() that answers True whatever the flag
AlwaysConnected == TRUE

\* isconnected()
IsConnected == connected

\* exec_command(cmd, print_function) up to its first read: lines 240-257,
\* and test_completion's lines 201-205
ExecCall(cmd, kinds) ==
    /\ UNCHANGED outerVars
    /\ op = "idle"
    /\ op' = "exec"
    /\ arg' = cmd
    /\ IF ~IsConnected
       THEN /\ Finish("NotConnected")
            /\ UNCHANGED << sent, sink, emitted, pending, held, endless >>
       ELSE IF StartsWith(cmd, TestPrefix)
       THEN IF SendOutcome # "ok"
            THEN /\ sink' = << SinkDebug, SinkTestError(SendOutcome) >>
                 /\ Finish("1")
                 /\ UNCHANGED << sent, emitted, pending, held, endless >>
            ELSE /\ sink' = << SinkDebug >>
                 /\ WriteThenRead(Resync, PromptReplies(NL), "t_clean")
                 /\ UNCHANGED << emitted, ret >>
       ELSE /\ sink' = << SinkNotice(Strip(cmd)) >>
            /\ IF SendOutcome # "ok"
               THEN /\ Finish(SendOutcome)
                    /\ UNCHANGED << sent, emitted, pending, held, endless >>
               ELSE /\ sent' = << CommandLine(cmd) >>
                    /\ \E r \in Offered({ x \in CommandReplies(CommandLine(cmd)) :
                                              x.kind \in kinds }) :
                         Deliver(r) /\ emitted' = r
                    /\ StartRead("x_read")
                    /\ UNCHANGED ret
    /\ UNCHANGED << sessionVars, openT, openC, alive, status >>
    /\ UNCHANGED complVars
    /\ before' = Snapshot

\* an exec_command that returns without the re-sync
SkipResync(site) ==
    Finish("1") /\ UNCHANGED << sent, pending, held, endless >>

\* _ensure_clean_prompt() called from exec_command, then site
ExecResync(site) ==
    IF SendOutcome # "ok"
    THEN Finish(SendOutcome) /\ UNCHANGED << sent, pending, held, endless >>
    ELSE WriteThenRead(Resync, PromptReplies(NL), site) /\ UNCHANGED ret

\* exec_command after one of its reads: lines 257-288
ExecStep ==
    /\ UNCHANGED outerVars
    /\ op = "exec"
    /\ pc \in {"x_read", "x_sync", "x_sync2"}
    /\ rd \in {"ok", "timeout", "fault"}
    /\ IF rd = "fault"
       THEN Finish("Fault") /\ UNCHANGED << sent, sink, status, pending, held, endless >>
       ELSE IF pc = "x_read" /\ rd = "ok"
       THEN LET lines == OutputLines(buf, Strip(arg))
            IN /\ sink' = sink \o ForwardAll(lines)
               /\ status' = (IF HasError(lines) THEN 1 ELSE 0)
               /\ ExecResync("x_sync")
       ELSE IF pc = "x_sync" /\ rd = "ok"
       THEN Finish(StatusRet(status))
            /\ UNCHANGED << sent, sink, status, pending, held, endless >>
       ELSE IF pc = "x_sync2" /\ rd = "ok"
       THEN Finish("1") /\ UNCHANGED << sent, sink, status, pending, held, endless >>
       ELSE IF pc = "x_sync2"
       THEN Finish("Timeout")
            /\ UNCHANGED << sent, sink, status, pending, held, endless >>
       ELSE \* a timeout at x_read or x_sync: the except branch
            /\ sink' = Append(sink, SinkError(buf))
            /\ status' = 1
            /\ ExecResync("x_sync2")
    /\ UNCHANGED << sessionVars, openT, openC, alive, op, arg, emitted >>
    /\ UNCHANGED << complVars, before >>

\* test_completion after one of its reads: lines 205-224
TestStep ==
    /\ UNCHANGED outerVars
    /\ op = "exec"
    /\ pc \in {"t_clean", "t_query", "t_final"}
    /\ rd \in {"ok", "timeout", "fault"}
    /\ IF rd # "ok"
       THEN /\ sink' = Append(sink, SinkTestError(IF rd = "timeout" THEN "Timeout"
                                                  ELSE "Fault"))
            /\ Finish("1")
            /\ UNCHANGED << sent, pending, held, endless >>
       ELSE IF pc = "t_final"
       THEN Finish("0") /\ UNCHANGED << sent, sink, pending, held, endless >>
       ELSE IF SendOutcome # "ok"
       THEN /\ sink' = sink \o (IF pc = "t_clean" THEN << SinkDebug, SinkDebug >>
                                ELSE << SinkDebug >>)
                         \o << SinkTestError(SendOutcome) >>
            /\ Finish("1")
            /\ UNCHANGED << sent, pending, held, endless >>
       ELSE IF pc = "t_clean"
       THEN /\ sink' = sink \o << SinkDebug, SinkDebug >>
            /\ WriteThenRead(AfterFirstSpace(arg) \o <<"?","\n">>,
                             PromptReplies(AfterFirstSpace(arg) \o <<"?","\n">>),
                             "t_query")
            /\ UNCHANGED ret
       ELSE /\ sink' = Append(sink, SinkDebug)
            /\ WriteThenRead(Resync, PromptReplies(NL), "t_final")
            /\ UNCHANGED ret
    /\ UNCHANGED << sessionVars, openT, openC, alive, op, arg, status, emitted >>
    /\ UNCHANGED << complVars, before >>

\* --------------------------------------------------------- interrupt
Cancel == << "^C" >>

\* interrupt() up to its read: lines 312-315
InterruptCall ==
    /\ UNCHANGED outerVars
    /\ op = "idle"
    /\ op' = "interrupt"
    /\ IF shell_channel = 0
       THEN Finish("ok") /\ UNCHANGED << sent, pending, held, endless >>
       ELSE IF SendOutcome # "ok"
       THEN Finish(SendOutcome) /\ UNCHANGED << sent, pending, held, endless >>
       ELSE WriteThenRead(Cancel, PromptReplies(NL), "i_read") /\ UNCHANGED ret
    /\ UNCHANGED << sessionVars, openT, openC, alive, arg, status, emitted, sink >>
    /\ UNCHANGED complVars
    /\ before' = Snapshot

\* an interrupt() that marks the session disconnected when its read fails
InterruptStepDisconnecting ==
    /\ UNCHANGED outerVars
    /\ op = "interrupt"
    /\ pc = "i_read"
    /\ rd \in {"ok", "timeout", "fault"}
    /\ Finish(CASE rd = "ok" -> "ok" [] rd = "timeout" -> "Timeout" [] OTHER -> "Fault")
    /\ connected' = (connected /\ rd = "ok")
    /\ UNCHANGED << client, shell_channel, host >>
    /\ UNCHANGED << envVars, op, arg, status, emitted, sent, sink >>
    /\ UNCHANGED << complVars, before >>

\* interrupt() after its read: line 315
InterruptStep ==
    /\ UNCHANGED outerVars
    /\ op = "interrupt"
    /\ pc = "i_read"
    /\ rd \in {"ok", "timeout", "fault"}
    /\ Finish(CASE rd = "ok" -> "ok" [] rd = "timeout" -> "Timeout" [] OTHER -> "Fault")
    /\ UNCHANGED << sessionVars, envVars, op, arg, status, emitted, sent, sink >>
    /\ UNCHANGED << complVars, before >>

\* ------------------------------------------------------- completion
PossibleCompletions == <<"P","o","s","s","i","b","l","e"," ","c","o","m","p","l","e","t","i","o","n","s",":">>
SetKeyword == <<"s","e","t"," ">>

\* line 407: what ends the list of completions
ListStops ==
    { <<"e","r","r","o","r",":">>,
      <<"s","y","n","t","a","x"," ","e","r","r","o","r",":">>,
      <<"[","e","d","i","t","]">> }

\* partial_cmd.rsplit(' ', 1)[0] if ' ' in partial_cmd else ''
BaseCmd(partial) ==
    IF LastSpace(partial) = 0 THEN << >> ELSE SubSeq(partial, 1, LastSpace(partial) - 1)

\* partial_cmd.rsplit(' ', 1)[-1] if ' ' in partial_cmd else partial_cmd
CurrentWord(partial) == SubSeq(partial, LastSpace(partial) + 1, Len(partial))

\* lines 413-420: the word a line of the list offers
ListWord(line) ==
    LET l == Strip(line)
        m == IF StartsWith(l, <<">">>) THEN Strip(Tail(l)) ELSE l
    IN Strip(BeforeDoubleSpace(m))

\* lines 388-436: the loop over the reply's lines
RECURSIVE ScanList(_, _, _)
ScanList(lines, inList, partial) ==
    IF lines = << >> THEN << >>
    ELSE LET line == Head(lines)
             word == ListWord(line)
         IN IF Strip(line) = << >> THEN ScanList(Tail(lines), inList, partial)
            ELSE IF Contains(line, PossibleCompletions)
                 THEN ScanList(Tail(lines), TRUE, partial)
            ELSE IF ~inList THEN ScanList(Tail(lines), inList, partial)
            ELSE IF \E x \in ListStops : Contains(ToLower(line), x) THEN << >>
            ELSE (IF StartsWith(word, CurrentWord(partial))
                  THEN << IF BaseCmd(partial) # << >>
                          THEN BaseCmd(partial) \o <<" ">> \o word
                          ELSE word >>
                  ELSE << >>)
                 \o ScanList(Tail(lines), inList, partial)

\* lines 382-436: the completions in the reply to "partial?"
ParseList(output, partial) ==
    LET lines == SplitOn(output, "\n")
    IN ScanList(SubSeq(lines, 2, Len(lines) - 1), FALSE, partial)

\* line 464: '#' in (output.splitlines()[-1] if output else '')
IsConfigMode(output) ==
    LET ls == SplitLines(output)
    IN ls # << >> /\ Contains(ls[Len(ls)], <<"#">>)

\* a filter that lets the text itself through
Extensions(completions, text) ==
    { Strip(completions[i]) : i \in { j \in DOMAIN completions :
          StartsWith(Strip(completions[j]), text) } }

\* lines 503-510: the completions that extend the text
Matches(completions, text) ==
    { Strip(completions[i]) : i \in { j \in DOMAIN completions :
          StartsWith(Strip(completions[j]), text) /\ Strip(completions[j]) # text } }

\* key=str.lower
LowerLE(a, b) == StrLE(ToLower(a), ToLower(b))

\* line 515: sorted(list(set(matches)), key=str.lower); the sort is stable
\* and the set's order is any, so entries with equal keys come in any order
Sorted(S) ==
    { f \in [1..Cardinality(S) -> S] :
        /\ \A i, j \in 1..Cardinality(S) : i # j => f[i] # f[j]
        /\ \A i, j \in 1..Cardinality(S) : i < j => LowerLE(f[i], f[j]) }

\* lines 500-515: get_completions returns, _get_completions having given cs
FinishComplete(cs) ==
    /\ \E f \in Sorted(Matches(cs, Strip(arg))) : result' = f
    /\ Finish("list")

\* line 330 of _get_completions_cli_command: the structured query command
\* that embeds the fragment (no line of the module calls the function)
ShowCliCompleteOn == <<"s","h","o","w"," ","c","l","i"," ","c","o","m","p","l","e","t","e","-","o","n"," ">>
CompletionCmd(partial) == ShowCliCompleteOn \o <<"\"">> \o partial \o <<"\"">>

\* the text the query-mark strategy is asked about: lines 470-483
\* a query that keeps the keyword in every mode
WholeFragment == Strip(arg)

\* lines 470-483: the partial command the current query-mark run was given
QueryText == IF phase = "set" THEN SubSeq(Strip(arg), 5, Len(Strip(arg))) ELSE Strip(arg)

Fragments == { <<" ">>, <<"s"," ","v">>, <<"s","e","t"," ","v">> }

ConfigPrompt == <<"u","@","h","#"," ">>

\* the prompt in either mode
ModeReplies(w) ==
    PromptReplies(w) \cup
    { [pk |-> << w \o ConfigPrompt >>, held |-> << >>, endless |-> FALSE,
       kind |-> "config", lines |-> << >>, prompt |-> ConfigPrompt] }

\* what the remote shell may answer to "partial?"
QueryReplies(w) ==
    LET R(kind, body) ==
            [pk |-> << w \o body \o Prompt >>, held |-> << >>, endless |-> FALSE,
             kind |-> kind, lines |-> SplitOn(body, "\n"), prompt |-> Prompt]
        ve == <<" "," ","v","e"," "," ","d","\n">>
        vl == <<">"," ","v","l","\n">>
        xx == <<" "," ","x","\n">>
        er == <<"e","r","r","o","r",":"," ","z","\n">>
    IN { R("list", PossibleCompletions \o NL \o ve \o vl \o xx),
         R("stop", PossibleCompletions \o NL \o ve \o er \o vl),
         R("none", << >>) }

\* Of the completion code's debug messages the sink history keeps those
\* that name the query about to be tried (lines 472 and 479) and those that
\* report an exception (lines 448 and 486).
SinkTrying(partial) == [k |-> "debug", t |-> partial, e |-> ""]
SinkCompletionError(x) == [k |-> "debug", t |-> << >>, e |-> x]

\* the exception a read that did not return has raised
ReadFailure == IF rd = "timeout" THEN "Timeout" ELSE "Fault"

\* a handler that lets every exception through
CaughtNone(x) == FALSE

\* "except Exception" at line 485: every exception of Raised is one
Caught(x) == x \in Raised

\* lines 485-487: x reaches _get_completions' handler once said was printed
Fail(said, x) ==
    /\ sink' = sink \o said \o << SinkCompletionError(x) >>
    /\ IF Caught(x)
       THEN FinishComplete(<< >>)
       ELSE Finish(x) /\ result' = << >>
    /\ UNCHANGED << sent, pending, held, endless >>

\* get_completions(text) up to its first read: lines 491-500, 458-460
CompleteCall(text) ==
    /\ UNCHANGED outerVars
    /\ op = "idle"
    /\ op' = "complete"
    /\ arg' = text
    /\ IF Strip(text) = << >>
       THEN /\ result' = << >>
            /\ Finish("list")
            /\ UNCHANGED << sent, sink, pending, held, endless >>
       ELSE IF SendOutcome # "ok"
       THEN Fail(<< >>, SendOutcome)
       ELSE /\ WriteThenRead(Resync, ModeReplies(NL), "g_clean")
            /\ UNCHANGED << ret, result, sink >>
    /\ UNCHANGED << sessionVars, openT, openC, alive, status, emitted,
                    phase, cands >>
    /\ before' = Snapshot

\* a write of the query-mark strategy's try block, said having been
\* printed: when it raises, the handler reports it at line 448, the
\* handler's own write at line 450 raises too, and that reaches line 485
TryWrite(said, w, replies, site) ==
    IF SendOutcome # "ok"
    THEN Fail(said \o << SinkCompletionError(SendOutcome) >>, SendOutcome)
    ELSE /\ sink' = sink \o said
         /\ WriteThenRead(w, replies, site)
         /\ UNCHANGED << ret, result >>

\* a write of the strategy's handler (lines 450 and 452): when it raises,
\* the exception reaches line 485
HandlerWrite(said, w, replies, site) ==
    IF SendOutcome # "ok"
    THEN Fail(said, SendOutcome)
    ELSE /\ sink' = sink \o said
         /\ WriteThenRead(w, replies, site)
         /\ UNCHANGED << ret, result >>

\* _get_completions_question_mark returns cs: lines 473-483
QueryReturns(cs) ==
    IF phase = "set" /\ cs = << >>
    THEN /\ phase' = "full"
         /\ cands' = << >>
         /\ TryWrite(<< SinkTrying(Strip(arg)) >>, Resync, PromptReplies(NL), "q_clean")
    ELSE /\ FinishComplete(IF phase = "set"
                           THEN [i \in DOMAIN cs |-> SetKeyword \o cs[i]]
                           ELSE cs)
         /\ UNCHANGED << sent, sink, pending, held, endless, phase, cands >>

\* a clean-up that writes the clear-line sequence both times
CleanupPair(site) == Resync

\* lines 439-442 and 450-453: the clean-up's first write clears the line,
\* its second is a newline alone; site is the read that follows the write
CleanupWrite(site) == IF site \in {"q_cl1", "e_cl1"} THEN Resync ELSE NL

\* get_completions after one of its reads: lines 460-487 and 371-454
CompleteStep ==
    /\ UNCHANGED outerVars
    /\ op = "complete"
    /\ pc \in {"g_clean", "q_clean", "q_query", "q_cl1", "q_cl2", "e_cl1", "e_cl2"}
    /\ rd \in {"ok", "timeout", "fault"}
    /\ IF pc = "g_clean"
       THEN IF rd = "ok"
            THEN /\ phase' = (IF IsConfigMode(buf) /\ StartsWith(Strip(arg), SetKeyword)
                              THEN "set" ELSE "full")
                 /\ TryWrite(IF ~IsConfigMode(buf) THEN << >>
                             ELSE IF StartsWith(Strip(arg), SetKeyword)
                             THEN << SinkTrying(SubSeq(Strip(arg), 5, Len(Strip(arg)))) >>
                             ELSE << SinkTrying(Strip(arg)) >>,
                             Resync, PromptReplies(NL), "q_clean")
                 /\ UNCHANGED cands
            ELSE /\ Fail(<< >>, ReadFailure)
                 /\ UNCHANGED << phase, cands >>
       ELSE IF pc \in {"e_cl1", "e_cl2"} /\ rd # "ok"
       THEN /\ Fail(<< >>, ReadFailure)
            /\ UNCHANGED << phase, cands >>
       ELSE IF rd # "ok"
       THEN \* the except branch of lines 447-453
            /\ HandlerWrite(<< SinkCompletionError(ReadFailure) >>, CleanupWrite("e_cl1"),
                            PromptReplies(NL), "e_cl1")
            /\ UNCHANGED << phase, cands >>
       ELSE IF pc = "q_clean"
       THEN /\ TryWrite(<< >>, QueryText \o <<"?","\n">>,
                        QueryReplies(QueryText \o <<"?","\n">>), "q_query")
            /\ UNCHANGED << phase, cands >>
       ELSE IF pc = "q_query"
       THEN /\ cands' = ParseList(buf, QueryText)
            /\ TryWrite(<< >>, CleanupWrite("q_cl1"), PromptReplies(NL), "q_cl1")
            /\ UNCHANGED phase
       ELSE IF pc = "q_cl1"
       THEN /\ TryWrite(<< >>, CleanupWrite("q_cl2"), PromptReplies(NL), "q_cl2")
            /\ UNCHANGED << phase, cands >>
       ELSE IF pc = "e_cl1"
       THEN /\ HandlerWrite(<< >>, CleanupWrite("e_cl2"), PromptReplies(NL), "e_cl2")
            /\ UNCHANGED << phase, cands >>
       ELSE IF pc = "q_cl2"
       THEN QueryReturns(cands)
       ELSE QueryReturns(<< >>)
    /\ UNCHANGED << sessionVars, openT, openC, alive, op, arg, status, emitted,
                    before >>

\* ------------------------------------------------- the specification
Init ==
    /\ parked = IdleFrame
    /\ sshwrapper = 0
    /\ login = FALSE
    /\ client = 0
    /\ shell_channel = 0
    /\ connected = FALSE
    /\ host = << >>
    /\ openT = {}
    /\ openC = {}
    /\ alive = FALSE
    /\ pending = << >>
    /\ held = << >>
    /\ endless = FALSE
    /\ emitted = NoReply
    /\ op = "idle"
    /\ pc = ""
    /\ arg = << >>
    /\ status = 0
    /\ rd = "off"
    /\ buf = << >>
    /\ fed = << >>
    /\ elapsed = 0
    /\ spaces = 0
    /\ sent = << >>
    /\ sink = << >>
    /\ ret = ""
    /\ phase = ""
    /\ cands = << >>
    /\ result = << >>
    /\ before = NoSnapshot

Next ==
    \/ \E h \in Hosts : ConnectCall(h)
    \/ ConnectStep
    \/ CloseCall
    \/ \E c \in Commands : ExecCall(c, PlainKinds)
    \/ ExecStep
    \/ TestStep
    \/ InterruptCall
    \/ InterruptStep
    \/ \E t \in Fragments : CompleteCall(t)
    \/ CompleteStep
    \/ ReaderNotReady
    \/ ReaderRecv
    \/ Hangup
    \/ Return

Spec == Init /\ [][Next]_vars


\* The executor against every reply of the remote shell, on a session
\* that connect() has left connected.
InitExec ==
    /\ parked = IdleFrame
    /\ sshwrapper = 1
    /\ login = FALSE
    /\ client = 1
    /\ shell_channel = 1
    /\ connected = TRUE
    /\ host = <<"a">>
    /\ openT = {1}
    /\ openC = { <<1, 1>> }
    /\ alive = TRUE
    /\ pending = << >>
    /\ held = << >>
    /\ endless = FALSE
    /\ emitted = NoReply
    /\ op = "idle"
    /\ pc = ""
    /\ arg = << >>
    /\ status = 0
    /\ rd = "off"
    /\ buf = << >>
    /\ fed = << >>
    /\ elapsed = 0
    /\ spaces = 0
    /\ sent = << >>
    /\ sink = << >>
    /\ ret = ""
    /\ phase = ""
    /\ cands = << >>
    /\ result = << >>
    /\ before = NoSnapshot

NextExec ==
    \/ \E c \in Commands : ExecCall(c, AllKinds)
    \/ ExecStep
    \/ TestStep
    \/ ReaderNotReady
    \/ ReaderRecv
    \/ Hangup
    \/ Return

SpecExec == InitExec /\ [][NextExec]_vars

\* Two call sites on one session.  No line of the module takes a lock, so
\* the steps of the two calls interleave freely: the scheduler leaves the
\* running call where it is and resumes the other one.
Switch ==
    /\ parked' = Frame
    /\ op' = parked.op
    /\ pc' = parked.pc
    /\ arg' = parked.arg
    /\ status' = parked.status
    /\ rd' = parked.rd
    /\ buf' = parked.buf
    /\ fed' = parked.fed
    /\ elapsed' = parked.elapsed
    /\ spaces' = parked.spaces
    /\ emitted' = parked.emitted
    /\ sent' = parked.sent
    /\ sink' = parked.sink
    /\ ret' = parked.ret
    /\ phase' = parked.phase
    /\ cands' = parked.cands
    /\ result' = parked.result
    /\ before' = parked.before
    /\ UNCHANGED << sessionVars, envVars, sshwrapper, login >>

SharedCommands == { <<"s">> }
SharedFragments == { <<"s"," ","v">> }

\* The calls explored: one call of exec_command or get_completions by a
\* call site, started while the other call site is in no call, and any
\* number of interrupt() calls by the other call site, started while the
\* first one is in its call.  The command is an ordinary one, so the
\* diagnostic of lines 244-246 is not entered.
NextShared ==
    \/ \E c \in SharedCommands : parked.op = "idle" /\ ExecCall(c, {"ok"})
    \/ ExecStep
    \/ parked.op \in {"exec", "complete"} /\ InterruptCall
    \/ InterruptStep
    \/ \E t \in SharedFragments : parked.op = "idle" /\ CompleteCall(t)
    \/ CompleteStep
    \/ ReaderNotReady
    \/ ReaderRecv
    \/ op = "interrupt" /\ Return
    \/ Switch

SpecShared == InitExec /\ [][NextShared]_vars

\* The kernel: do_login, do_logout and restart_kernel over the wrappers
\* do_login makes.  A wrapper makes one client, in connect(), and goes by
\* that client's id; the session's fields are those of the wrapper made
\* last.
MaxWrappers == 3

\* do_logout(): kernel.py lines 144-149
Logout ==
    /\ sshwrapper' = 0
    /\ IF sshwrapper # 0
       THEN /\ connected' = FALSE
            /\ openC' = ChannelsAfterClose
            /\ openT' = TransportsAfterClose
            /\ shell_channel' = 0
            /\ client' = 0
            /\ pending' = << >>
            /\ held' = << >>
            /\ endless' = FALSE
            /\ alive' = FALSE
            /\ UNCHANGED host
       ELSE UNCHANGED << sessionVars, envVars >>

\* do_login(host) up to wrapper.connect(host): kernel.py lines 132-134;
\* do_logout() closes the wrapper the kernel refers to, and the wrapper
\* made at line 134 has the fields of lines 26-42
LoginCall ==
    /\ ~login
    /\ op = "idle"
    /\ Cardinality(openT) < MaxWrappers
    /\ login' = TRUE
    /\ sshwrapper' = 0
    /\ openT' = (IF sshwrapper # 0 THEN TransportsAfterClose ELSE openT)
    /\ openC' = (IF sshwrapper # 0 THEN ChannelsAfterClose ELSE openC)
    /\ client' = 0
    /\ shell_channel' = 0
    /\ connected' = FALSE
    /\ host' = << >>
    /\ pending' = << >>
    /\ held' = << >>
    /\ endless' = FALSE
    /\ alive' = FALSE
    /\ UNCHANGED << opVars, rdVars, histVars, complVars, before, parked >>

\* do_login once wrapper.connect(host) has ended: kernel.py lines 135-136;
\* the assignment is reached when connect() has returned, not when it has
\* raised
LoginReturn ==
    /\ login
    /\ op = "connect"
    /\ pc = "done"
    /\ login' = FALSE
    /\ sshwrapper' = (IF ret = "ok" THEN client ELSE sshwrapper)
    /\ UNCHANGED << sessionVars, envVars, opVars, rdVars, histVars, complVars,
                    before, parked >>

\* do_logout(): kernel.py lines 138-149
DoLogout ==
    /\ ~login
    /\ op = "idle"
    /\ Logout
    /\ UNCHANGED << opVars, rdVars, histVars, complVars, before, parked, login >>

\* restart_kernel(): kernel.py lines 289-296
RestartKernel ==
    /\ ~login
    /\ op = "idle"
    /\ Logout
    /\ UNCHANGED << opVars, rdVars, histVars, complVars, before, parked, login >>

NextKernel ==
    \/ LoginCall
    \/ \E h \in Hosts : login /\ ConnectCall(h)
    \/ ConnectStep
    \/ LoginReturn
    \/ ~login /\ Return
    \/ DoLogout
    \/ RestartKernel
    \/ ReaderNotReady
    \/ ReaderRecv
    \/ Hangup

SpecKernel == Init /\ [][NextKernel]_vars

\* The reader's loop keeps running while a read is under way: each of its
\* iterations is one of the two reader steps.
SpecExecFair == SpecExec /\ WF_vars(ReaderNotReady \/ ReaderRecv)


\* The filter of get_completions over the lists _get_completions can give
\* it: entries without blanks around them, the fragment itself, entries
\* that differ in case only, entries that do not extend the fragment.
FilterFragments == { <<"s">>, <<" ","s","a">>, <<"S">> }

CandidatePool ==
    { <<"s">>, <<"s","a">>, <<"s","a","b">>, <<"s","B">>, <<"S","c">>,
      <<"s","b">>, <<"t">> }

MaxCandidates == 3

CandidateLists ==
    UNION { [1..n -> CandidatePool] : n \in 0..MaxCandidates }

InitFilter ==
    /\ parked = IdleFrame
    /\ sshwrapper = 1
    /\ login = FALSE
    /\ client = 1
    /\ shell_channel = 1
    /\ connected = TRUE
    /\ host = <<"a">>
    /\ openT = {1}
    /\ openC = { <<1, 1>> }
    /\ alive = TRUE
    /\ pending = << >>
    /\ held = << >>
    /\ endless = FALSE
    /\ emitted = NoReply
    /\ op = "idle"
    /\ pc = ""
    /\ arg \in FilterFragments
    /\ status = 0
    /\ rd = "off"
    /\ buf = << >>
    /\ fed = << >>
    /\ elapsed = 0
    /\ spaces = 0
    /\ sent = << >>
    /\ sink = << >>
    /\ ret = ""
    /\ phase = "full"
    /\ cands \in CandidateLists
    /\ result = << >>
    /\ before = NoSnapshot

\* lines 500-515 of get_completions, _get_completions having returned cands
FilterCall ==
    /\ UNCHANGED outerVars
    /\ op = "idle"
    /\ Strip(arg) # << >>
    /\ op' = "complete"
    /\ FinishComplete(cands)
    /\ before' = Snapshot
    /\ UNCHANGED << sessionVars, envVars, arg, status, emitted, sent, sink,
                    phase, cands >>

NextFilter ==
    \/ FilterCall
    \/ Return

SpecFilter == InitFilter /\ [][NextFilter]_vars


\* The reader's prompt test over buffers put together from the parts the
\* pattern names, well-formed and not, behind prefixes of every kind.
MasterParts == { << >>, <<"{","m","a","s","t","e","r",":","0","}">>,
                 <<"{","m","a","s","t","e","r",":","}">> }
EditParts == { << >>, <<"[","e","d","i","t"," ","a","]">>, <<"[","e","d","i","]">> }
NameParts == { <<"u","@","h">>, <<"u","-","1","@","_","h">>, <<"@","h">>, <<"u","@">> }
EndParts == { <<">">>, <<"#">>, <<"%">>, <<"$">> }
NoteParts == { << >>, <<" ">> \o PendingChanges, <<"\n","\t">> \o PendingChanges,
               PendingChanges }
TrailParts == { << >>, <<" ">>, <<" ","\n">>, <<"\n","\n">>, <<"x">> }

PromptBuffers ==
    { m \o e \o n \o c \o a \o w :
        m \in MasterParts, e \in EditParts, n \in NameParts, c \in EndParts,
        a \in NoteParts, w \in TrailParts }

Prefixes == { << >>, <<"o","k","\n">>, <<"u">>, <<"u","@","h",">"," ">>, <<"@">> }

InitPrompt ==
    /\ parked = IdleFrame
    /\ sshwrapper = 1
    /\ login = FALSE
    /\ client = 1
    /\ shell_channel = 1
    /\ connected = TRUE
    /\ host = <<"a">>
    /\ openT = {1}
    /\ openC = { <<1, 1>> }
    /\ alive = TRUE
    /\ pending = << >>
    /\ held = << >>
    /\ endless = FALSE
    /\ emitted = NoReply
    /\ op = "idle"
    /\ pc = ""
    /\ arg \in Prefixes
    /\ status = 0
    /\ rd = "off"
    /\ buf \in PromptBuffers
    /\ fed = << >>
    /\ elapsed = 0
    /\ spaces = 0
    /\ sent = << >>
    /\ sink = << >>
    /\ ret = ""
    /\ phase = ""
    /\ cands = << >>
    /\ result = << >>
    /\ before = NoSnapshot

\* line 164 on the buffer, and on the buffer behind the prefix
MatchCall ==
    /\ UNCHANGED outerVars
    /\ op = "idle"
    /\ op' = "match"
    /\ pc' = "done"
    /\ result' = << IsTerminatingPrompt(buf), IsTerminatingPrompt(arg \o buf) >>
    /\ ret' = "ok"
    /\ before' = Snapshot
    /\ UNCHANGED << sessionVars, envVars, arg, status, rd, buf, fed, elapsed,
                    spaces, emitted, sent, sink, phase, cands >>

NextPrompt ==
    \/ MatchCall
    \/ Return

SpecPrompt == InitPrompt /\ [][NextPrompt]_vars


\* ---------------------------------------------------------- properties
\* no operation is in progress: none was called, or the last one has ended
Quiescent == op = "idle" \/ pc = "done"

\* C1: whenever no operation is in progress, the shell channel is non-null
\* if and only if the connection flag is true.
ChannelIffConnected ==
    Quiescent => ((shell_channel # 0) <=> connected)

\* C2: a close() call ends without an error and leaves the connection flag
\* false, the shell channel and the transport handle null and nothing of
\* the session open, whatever the session was before (never connected,
\* connected, already closed).
CloseIdempotent ==
    (op = "close" /\ pc = "done") =>
        /\ ret = "ok"
        /\ ~connected
        /\ shell_channel = 0
        /\ client = 0
        /\ openT = {}
        /\ openC = {}

\* a close() has ended on a session that an earlier close() had closed
ClosedTwice ==
    /\ op = "close"
    /\ pc = "done"
    /\ before.client = 0
    /\ ~before.connected
    /\ host # << >>
    /\ ret = "ok"

\* C3: no two channels are open at once, and after a connect() that
\* succeeded exactly one channel is open, it is the session's own, and the
\* session's host is the one the call named.
ReconnectSafe ==
    /\ Cardinality(openC) <= 1
    /\ Cardinality(openT) <= 1
    /\ (op = "connect" /\ pc = "done" /\ ret = "ok") =>
           /\ openC = { << shell_channel, client >> }
           /\ openT = { client }
           /\ host = ParseHost(arg)

\* a connect() has succeeded on a session that was connected to another
\* host and had its channel open
Reconnected ==
    /\ op = "connect"
    /\ pc = "done"
    /\ ret = "ok"
    /\ before.connected
    /\ before.channel # 0
    /\ before.openC # {}
    /\ before.host # host

\* C4: exec_command on a session whose flag is false fails with "Not
\* connected", writes nothing to a channel and gives nothing to the sink.
NotConnectedRefused ==
    (op = "exec" /\ pc = "done" /\ ~before.connected) =>
        /\ ret = "NotConnected"
        /\ sent = << >>
        /\ sink = << >>

\* exec_command has been refused on a session that was closed
RefusedAfterClose ==
    /\ op = "exec"
    /\ pc = "done"
    /\ ~before.connected
    /\ host # << >>
    /\ ret = "NotConnected"

\* an exec_command call has ended: with a status, or with an exception
ExecDone == op = "exec" /\ pc = "done"

\* the call was for the diagnostic command of lines 244-246
Diagnostic == StartsWith(arg, TestPrefix)

\* the output lines the sink was given, without their newlines
Forwarded ==
    LET outs == SelectSeq(sink, LAMBDA m : m.k = "out")
    IN [i \in DOMAIN outs |-> DropLast(outs[i].t, 1)]

\* a reader timeout, or another exception, was reported to the sink
TimeoutReported == \E i \in DOMAIN sink : sink[i].e = "Timeout"
ExceptionReported == \E i \in DOMAIN sink : sink[i].e # ""

\* a forwarded line starts, after blanks, with an error marker in any case
ErrorForwarded == \E i \in DOMAIN Forwarded : IsErrorLine(Forwarded[i])

\* the replies that are the echo, lines without an error marker that do
\* not look like a prompt, and one terminating prompt
RoundTripKinds == {"ok", "split", "ann", "pnl"}

\* C5: a command answered, on a channel with nothing in flight, by its
\* echo, output lines and a terminating prompt has exactly those output
\* lines forwarded, in order, when it returns status 0.
RoundTrip ==
    (ExecDone /\ ~Diagnostic /\ ret = "0" /\ before.quiet
       /\ emitted.kind \in RoundTripKinds) =>
        Forwarded = emitted.lines

\* C6 as stated: the status is 1 if and only if a forwarded line matches
\* an error marker or the reader timed out.
StatusIffErrorOrTimeout ==
    (ExecDone /\ ret \in {"0", "1"}) =>
        (ret = "1" <=> (ErrorForwarded \/ TimeoutReported))

\* C6: for the diagnostic command the status is 1 if and only if the
\* diagnostic raised an exception (a reader timeout or a failed write); for
\* any other command it is 1 if and only if a forwarded line starts, after
\* optional blanks and in any case, with an error marker, or the reader
\* timed out.
StatusMeaning ==
    (ExecDone /\ ret \in {"0", "1"}) =>
        IF Diagnostic
        THEN ret = "1" <=> ExceptionReported
        ELSE ret = "1" <=> (ErrorForwarded \/ TimeoutReported)

\* an ordinary command has returned 1 for an error line, with no timeout
ErrorStatus ==
    /\ ExecDone
    /\ ~Diagnostic
    /\ ret = "1"
    /\ ErrorForwarded
    /\ ~TimeoutReported

\* C7: exec_command never ends with the reader's TimeoutError.
TimeoutNotFatal == ExecDone => ret # "Timeout"

\* the stream of a reply whose pager held one page back
PagedStream ==
    IF emitted.kind = "paged"
    THEN sent[1] \o <<"o","k","o","k">> \o NL \o Prompt
    ELSE sent[1] \o <<"o","k">> \o NL \o Prompt

\* C8: when the remote pages its reply (data ending in a marker, then,
\* after a space, the rest ending in a prompt), with nothing else in
\* flight, the reader returns the data without the marker and has written
\* one space for the one marker.
Pagination ==
    (op = "exec" /\ pc = "x_read" /\ rd = "ok" /\ before.quiet
       /\ emitted.kind \in {"paged", "paged100"}) =>
        (buf = PagedStream /\ spaces = 1)

\* the reader has returned a reply that came in two pages
PagedRead ==
    /\ op = "exec"
    /\ pc = "x_read"
    /\ rd = "ok"
    /\ before.quiet
    /\ emitted.kind = "paged100"
    /\ spaces = 1
    /\ held = << >>

\* C9: a read that is under way ends: with a prompt, a fault or the
\* TimeoutError.
ReadEnds == (rd = "run") ~> (rd # "run")

\* C10: get_completions returns exactly the candidates that start with the
\* trimmed fragment and differ from it, each once, in an order that is
\* ascending when case is ignored.
FilterExact ==
    (op = "complete" /\ pc = "done") =>
        /\ Range(result) =
               { c \in Range(cands) : StartsWith(c, Strip(arg)) /\ c # Strip(arg) }
        /\ \A i, j \in DOMAIN result : i # j => result[i] # result[j]
        /\ \A i, j \in DOMAIN result :
               i < j => StrLE(ToLower(result[i]), ToLower(result[j]))

\* the filter has dropped the fragment itself and has put a lower-case
\* entry before an upper-case one that a case-sensitive order puts first
FilterAtWork ==
    /\ op = "complete"
    /\ pc = "done"
    /\ arg = <<"s">>
    /\ cands = << <<"s","B">>, <<"s">>, <<"s","a">> >>
    /\ result = << <<"s","a">>, <<"s","B">> >>

\* a get_completions call has ended
CompletionDone == op = "complete" /\ pc = "done"

\* an exception was reported after the last query-mark run was announced,
\* or with no run announced at all
FailedLastRun ==
    LET tries == { i \in DOMAIN sink : sink[i].t # << >> }
        last == IF tries = {} THEN 0
                ELSE CHOOSE i \in tries : \A j \in tries : j <= i
    IN \E i \in (last + 1)..Len(sink) : sink[i].e # ""

\* C11 as stated: get_completions never raises, and whenever an exception
\* was raised inside a strategy or its clean-up it returns an empty list.
CompletionEmptyOnError ==
    CompletionDone =>
        /\ ret = "list"
        /\ ExceptionReported => result = << >>

\* C11: get_completions never raises, whatever the fragment and the
\* transport do; it returns an empty list when the exception was raised in
\* the last query-mark run it made or outside any run.  (When the run for
\* the fragment without its leading "set " fails in configuration mode, the
\* run for the full fragment follows and its candidates are returned.)
CompletionNeverRaises ==
    CompletionDone =>
        /\ ret = "list"
        /\ FailedLastRun => result = << >>

\* get_completions has returned an empty list on a connected session after
\* a read of its only query-mark run timed out
CompletionTimedOut ==
    /\ CompletionDone
    /\ before.connected
    /\ TimeoutReported
    /\ FailedLastRun
    /\ Len(sent) >= 2
    /\ ret = "list"
    /\ result = << >>

\* the query-mark strategy ran to its end for the whole fragment and found
\* no candidate
QueryMarkEmpty ==
    /\ CompletionDone
    /\ ~ExceptionReported
    /\ Strip(arg) # << >>
    /\ phase = "full"
    /\ cands = << >>
    /\ \E i \in DOMAIN sent : sent[i] = Strip(arg) \o <<"?","\n">>

\* C12: whenever the query-mark strategy yields no candidates for a
\* fragment, get_completions has sent the named-query command that embeds
\* the fragment on the same channel.
NamedQueryFallback ==
    QueryMarkEmpty =>
        \E i \in DOMAIN sent : sent[i] = CompletionCmd(Strip(arg)) \o NL

\* the replies that consist of the echo, output lines and one prompt that
\* exec_command recognises, however they are cut into packets and pages
CleanKinds == {"ok", "split", "err", "mid", "paged", "paged100"}

\* C13: an exec_command that follows a failed exec_command on the same
\* session, and that returns a status, has
\* given its sink no output line but those the remote shell produced in
\* answer to its own command.
NoLateOutput ==
    (ExecDone /\ ~Diagnostic /\ ret \in {"0", "1"} /\ before.prior = "exec failed"
       /\ emitted.kind \in CleanKinds \cup {"silent"}) =>
        Range(Forwarded) \subseteq Range(emitted.lines)

\* the session's fields are what they were when the operation was called
SessionUnchanged ==
    /\ client = before.client
    /\ shell_channel = before.channel
    /\ connected = before.connected
    /\ host = before.host
    /\ openT = before.openT
    /\ openC = before.openC

\* C14: interrupt() on a session that is not connected writes nothing,
\* reads nothing, raises nothing and leaves the session as it was; on a
\* connected session, unless the write itself fails, it writes the cancel
\* byte and nothing else, and its one read comes after that write.
InterruptContract ==
    /\ (op = "interrupt" /\ pc = "done" /\ ret # "Fault") =>
           IF before.connected
           THEN sent = << Cancel >>
           ELSE ret = "ok" /\ sent = << >> /\ SessionUnchanged
    /\ (op = "interrupt" /\ pc = "i_read") =>
           before.connected /\ sent = << Cancel >>

\* every character of s from place i to place j is one of cs
AllIn(s, i, j, cs) == \A k \in i..j : s[k] \in cs

\* what may follow the prompt's end character: blanks only, or blanks, the
\* annotation and then blanks only
PromptTail(t) ==
    \/ AllIn(t, 1, Len(t), Whitespace)
    \/ \E k \in 1..Len(t) :
          /\ AllIn(t, 1, k, Whitespace)
          /\ SubSeq(t, k + 1, k + Len(PendingChanges)) = PendingChanges
          /\ k + Len(PendingChanges) <= Len(t)
          /\ AllIn(t, k + Len(PendingChanges) + 1, Len(t), Whitespace)

\* s[i..j] is empty or a mode marker "{master:N}"
ModeMarker(s, i, j) ==
    \/ j = i - 1
    \/ /\ j - i + 1 > Len(MasterOpen) + 1
       /\ SubSeq(s, i, i + Len(MasterOpen) - 1) = MasterOpen
       /\ AllIn(s, i + Len(MasterOpen), j - 1, Digits)
       /\ s[j] = "}"

\* s[i..j] is empty or a hierarchy marker "[edit ...]"
HierarchyMarker(s, i, j) ==
    \/ j = i - 1
    \/ /\ j - i + 1 > Len(EditOpen)
       /\ SubSeq(s, i, i + Len(EditOpen) - 1) = EditOpen
       /\ \A k \in (i + Len(EditOpen))..(j - 1) : s[k] # "]"
       /\ s[j] = "]"

\* the documented form of a buffer's tail, read off the buffer: somewhere
\* an optional mode marker, an optional hierarchy marker, identifier "@"
\* identifier, one of % > #, and then the annotation and blanks to the end
PromptGrammar(b) ==
    \E e \in DOMAIN b :
        /\ b[e] \in PromptEndChars
        /\ PromptTail(SubSeq(b, e + 1, Len(b)))
        /\ \E a \in 2..(e - 2) :
              /\ b[a] = "@"
              /\ AllIn(b, a + 1, e - 1, IdentChars)
              /\ \E u \in 1..(a - 1) :
                    /\ AllIn(b, u, a - 1, IdentChars)
                    /\ \E m \in 1..u : \E h \in m..u :
                          ModeMarker(b, m, h - 1) /\ HierarchyMarker(b, h, u - 1)

\* C15: the prompt test is true of a buffer exactly when the buffer's tail
\* has the documented form, and a buffer that passes it passes it behind
\* any prefix.
PromptDetection ==
    (op = "match" /\ pc = "done") =>
        /\ result[1] = PromptGrammar(buf)
        /\ result[1] => result[2]

\* the test has passed a prompt with both markers, the annotation and
\* trailing blanks, alone and behind a prefix that ends in a prompt itself
PromptBehindPrefix ==
    /\ op = "match"
    /\ pc = "done"
    /\ arg = <<"u","@","h",">"," ">>
    /\ buf = <<"{","m","a","s","t","e","r",":","0","}">> \o <<"[","e","d","i","t"," ","a","]">>
               \o <<"u","-","1","@","_","h">> \o <<"#">> \o <<"\n","\t">> \o PendingChanges
               \o <<" ","\n">>
    /\ result = << TRUE, TRUE >>

\* C16: when the reply is the echo, output lines that are no prompts and
\* one terminating prompt (annotated or not, with blanks or a newline after
\* it or not), no line that exec_command forwards matches the reader's
\* terminating-prompt pattern.
PromptNeverForwarded ==
    (ExecDone /\ ~Diagnostic /\ ret \in {"0", "1"} /\ before.quiet
       /\ emitted.kind \in RoundTripKinds) =>
        \A i \in DOMAIN Forwarded : ~IsTerminatingPrompt(Forwarded[i])

\* the characters of a are characters of b, in b's order
RECURSIVE IsSubseq(_, _)
IsSubseq(a, b) ==
    IF a = << >> THEN TRUE
    ELSE IF b = << >> THEN FALSE
    ELSE IF Head(a) = Head(b) THEN IsSubseq(Tail(a), Tail(b))
    ELSE IsSubseq(a, Tail(b))

EndsInMarker(s) == EndsWith(s, MoreMarker) \/ EndsWith(s, MoreMarker100)

\* C17 as stated: the reader reads no further chunk once its buffer
\* matches the terminating-prompt pattern, so a read still under way has a
\* buffer that does not match.
ReaderStopsAtMatch == (rd = "run") => ~IsTerminatingPrompt(buf)

\* C17: a buffer that _read_until_prompt returns matches the
\* terminating-prompt pattern, does not end in a pagination marker and
\* consists of characters received in this invocation only; the reader
\* returns at the first chunk after whose append the buffer matched, and it
\* goes on reading with a matching buffer only when the chunk it has just
\* appended ended in a pagination marker, which it then cut off.
ReaderReturn ==
    /\ (rd = "ok") =>
           /\ IsTerminatingPrompt(buf)
           /\ ~EndsInMarker(buf)
           /\ IsSubseq(buf, fed)
    /\ (rd = "run" /\ IsTerminatingPrompt(buf)) =>
           /\ EndsInMarker(fed)
           /\ spaces > 0

\* the reader has returned a buffer that had matched once before, when a
\* marker was cut off it, and has read the page that followed
ReadPastMatch ==
    /\ op = "exec"
    /\ pc = "x_read"
    /\ rd = "ok"
    /\ before.quiet
    /\ emitted.kind = "pagedlike"
    /\ spaces = 1
    /\ Len(fed) = Len(buf) + MoreLen

\* the replies that are the echo, lines of which some carry an error
\* marker, and one prompt that exec_command recognises
ErrorKinds == {"ok", "split", "err", "mid", "errok"}

\* C18: the lines that remain of the reader's buffer once the echo and the
\* prompt are removed are forwarded to the sink, each once and in order,
\* whether or not one of them carries an error marker; when the reply is
\* the echo, lines and a prompt, these are the lines of the reply.
AllLinesForwarded ==
    /\ []((ExecDone /\ ~Diagnostic /\ ret \in {"0", "1"} /\ before.quiet
             /\ ~TimeoutReported /\ emitted.kind \in ErrorKinds) =>
           Forwarded = emitted.lines)
    /\ [][(op = "exec" /\ pc = "x_read" /\ rd = "ok" /\ pc' # "x_read") =>
           Forwarded' = OutputLines(buf, Strip(arg))]_vars

\* exec_command has returned 1 having forwarded an error line and the
\* line after it
ForwardedPastError ==
    /\ ExecDone
    /\ ~Diagnostic
    /\ ret = "1"
    /\ before.quiet
    /\ ~TimeoutReported
    /\ emitted.kind = "errok"
    /\ Len(Forwarded) = 2
    /\ IsErrorLine(Forwarded[1])
    /\ ~IsErrorLine(Forwarded[2])

\* C19 as stated: whatever the command text, the first thing exec_command
\* writes on a connected session is the trimmed command and a newline.
FirstWriteIsCommand ==
    (op = "exec" /\ before.connected /\ sent # << >>) =>
        sent[1] = Strip(arg) \o NL

\* C19: for a command that does not start with "__test_completion", the
\* first write of exec_command on a connected session is the trimmed
\* command and a newline, the notice is the first thing the sink is given,
\* and no read starts before that write.  For a command that starts with
\* "__test_completion" the command itself is never written: the first
\* write is the re-sync sequence, the second is the text after the
\* command's first space with "?" and a newline, and there is no notice.
CommandFirst ==
    (op = "exec" /\ before.connected) =>
        IF Diagnostic
        THEN /\ sent # << >> => sent[1] = Resync
             /\ Len(sent) >= 2 => sent[2] = AfterFirstSpace(arg) \o <<"?","\n">>
             /\ \A i \in DOMAIN sent : sent[i] # Strip(arg) \o NL
             /\ \A i \in DOMAIN sink : sink[i].k # "notice"
        ELSE /\ sent # << >> => sent[1] = Strip(arg) \o NL
             /\ sink # << >> /\ sink[1] = SinkNotice(Strip(arg))
             /\ \A i \in 2..Len(sink) : sink[i].k # "notice"
             /\ rd # "off" => sent # << >>

\* exec_command has returned 0 for a command given with blanks around it,
\* having written it without them and forwarded its output after the notice
CommandWritten ==
    /\ ExecDone
    /\ ret = "0"
    /\ arg = <<" ","s","v"," ">>
    /\ sent[1] = <<"s","v","\n">>
    /\ Len(sink) >= 2
    /\ sink[1].k = "notice"
    /\ sink[2].k = "out"

ConnectWrites == << CfgCompleteOff, CfgScreenLength, NL >>

\* C21: a connect writes nothing before the read of the banner has
\* returned, then the command that disables completion on space, then the
\* command that disables paging (and a blank line), each write coming
\* after the read that followed the write before it has returned; the
\* shell channel is open when the banner is read.
ConnectOrder ==
    /\ [](op = "connect" =>
           /\ Len(sent) <= Len(ConnectWrites)
           /\ sent = SubSeq(ConnectWrites, 1, Len(sent))
           /\ pc = "banner" => (sent = << >> /\ shell_channel # 0)
           /\ (pc = "done" /\ ret = "ok") => sent = ConnectWrites)
    /\ [][(op = "connect" /\ Len(sent') > Len(sent)) =>
           (rd = "ok" /\ rd' = "run" /\ shell_channel # 0
              /\ << shell_channel, client >> \in openC)]_vars

\* a connect has succeeded, having written its two configuration commands
\* and the blank line
ConnectConfigured ==
    /\ op = "connect"
    /\ pc = "done"
    /\ ret = "ok"
    /\ connected
    /\ shell_channel # 0
    /\ sent = ConnectWrites

\* the last two writes of the operation
LastTwoSent == SubSeq(sent, Len(sent) - 1, Len(sent))

\* the query-mark strategy has written a query in this call
QuerySent == \E i \in DOMAIN sent : EndsWith(sent[i], <<"?","\n">>)

\* the last query-mark run ended with an exception of its own: its handler
\* has reported one at line 448 and line 486 has reported the one that the
\* handler's clean-up raised
CleanupRaised ==
    LET tries == { i \in DOMAIN sink : sink[i].t # << >> }
        last == IF tries = {} THEN 0
                ELSE CHOOSE i \in tries : \A j \in tries : j <= i
    IN Cardinality({ i \in (last + 1)..Len(sink) : sink[i].e # "" }) >= 2

\* C22 as stated: when get_completions ends after a query was sent and the
\* strategy did not end with an exception, the last two writes are two
\* clear-line sequences.
CleanupPairTwice ==
    (CompletionDone /\ QuerySent /\ ~CleanupRaised) =>
        LastTwoSent = << Resync, Resync >>

\* C22: once the query-mark strategy has sent its query it returns only
\* after it has written the clear-line sequence (0x15 and a newline) and
\* then a newline alone, each followed by a read that returned; this holds
\* after a reply that was parsed and after an exception in the query's read.
\* (When a write or a read of the clean-up in the handler raises, the
\* strategy ends with that exception.)
CleanupAfterQuery ==
    /\ [](op = "complete" =>
           /\ pc \in {"q_cl1", "e_cl1"} => sent[Len(sent)] = Resync
           /\ pc \in {"q_cl2", "e_cl2"} => LastTwoSent = << Resync, NL >>
           /\ (pc = "done" /\ QuerySent /\ ~CleanupRaised) =>
                  LastTwoSent = << Resync, NL >>)
    /\ [][(op = "complete" /\ pc \in {"q_query", "q_cl1", "q_cl2", "e_cl1", "e_cl2"}
             /\ pc' \notin {pc, "q_cl1", "q_cl2", "e_cl1", "e_cl2"}) =>
           \/ pc \in {"q_cl2", "e_cl2"} /\ rd = "ok"
           \/ pc' = "done" /\ CleanupRaised']_vars

\* get_completions has returned after the read of its query timed out and
\* the handler's clean-up ran to its end
CleanupAfterTimeout ==
    /\ CompletionDone
    /\ phase = "full"
    /\ TimeoutReported
    /\ ~CleanupRaised
    /\ Len(sent) = 5
    /\ sent[3] = Strip(arg) \o <<"?","\n">>
    /\ LastTwoSent = << Resync, NL >>

\* the fragment get_completions passes on, and the fragment without "set "
Fragment == Strip(arg)
AfterKeyword == SubSeq(Fragment, Len(SetKeyword) + 1, Len(Fragment))

\* the entries of a list
Entries(l) == { l[i] : i \in DOMAIN l }

\* C23: when the last line of the clean-prompt output contains '#' and the
\* fragment begins with "set ", the query written is the fragment without
\* the keyword followed by '?' (and the newline that ends the write), and
\* every candidate obtained from that query is returned with "set "
\* prepended; in any other context the query written is the whole fragment
\* followed by '?'.
ModeAwareCompletion ==
    /\ [][(op = "complete" /\ pc = "g_clean" /\ rd = "ok" /\ pc' = "q_clean") =>
           (phase' = "set" <=>
              (IsConfigMode(buf) /\ StartsWith(Fragment, SetKeyword)))]_vars
    /\ [](op = "complete" /\ pc = "q_query" =>
           sent[Len(sent)] = (IF phase = "set" THEN AfterKeyword ELSE Fragment)
                                 \o <<"?","\n">>)
    /\ [](CompletionDone /\ phase = "set" /\ ~ExceptionReported /\ cands # << >> =>
           /\ ret = "list"
           /\ Entries(result) = { SetKeyword \o c : c \in Entries(cands) }
           /\ Len(sent) = 5
           /\ sent[3] = AfterKeyword \o <<"?","\n">>)

\* get_completions has returned, in configuration mode, the candidates of
\* the query for the fragment without its keyword, the keyword prepended
KeywordRestored ==
    /\ CompletionDone
    /\ phase = "set"
    /\ Fragment = <<"s","e","t"," ","v">>
    /\ Len(sent) = 5
    /\ sent[3] = <<"v","?","\n">>
    /\ cands = << <<"v","e">>, <<"v","l">> >>
    /\ result = << <<"s","e","t"," ","v","e">>, <<"s","e","t"," ","v","l">> >>

\* C24: at most one read-until-prompt operation is in progress on a
\* session: whatever the interleaving of two call sites that call
\* exec_command, get_completions and interrupt, the reader loops of both
\* are never polling the same shell channel at once.
OneReaderAtATime ==
    ~(rd = "run" /\ parked.rd = "run" /\ shell_channel # 0)

\* the connection flag, the shell channel, the transport handle and the
\* host are what they were when the operation was called
SessionFieldsKept ==
    /\ connected = before.connected
    /\ shell_channel = before.channel
    /\ client = before.client
    /\ host = before.host

\* C25: exec_command, get_completions and interrupt never change the
\* connection flag, the shell channel, the transport handle or the host,
\* however they end (a reader timeout included), and isconnected() reads the
\* flag only: during and after each of them these are what they were at the
\* call, and a step that changes one of them belongs to connect or close.
SessionFrame ==
    /\ [](op \in {"exec", "complete", "interrupt"} =>
            /\ SessionFieldsKept
            /\ IsConnected = before.connected)
    /\ [][sessionVars' # sessionVars =>
            op' \in {"connect", "close"}]_vars

\* exec_command has ended on a reader timeout and the session is connected
\* as before
ConnectedAfterTimeout ==
    /\ op = "exec"
    /\ pc = "done"
    /\ TimeoutReported
    /\ before.connected
    /\ connected
    /\ IsConnected
    /\ shell_channel # 0
    /\ client # 0

\* C26: when connect(host) has failed, at whatever step, isconnected() is
\* false and the session holds neither an open transport nor an open shell
\* channel.
FailedConnectLeavesNothing ==
    (op = "connect" /\ pc = "done" /\ ret # "ok") =>
        /\ ~IsConnected
        /\ client \notin openT
        /\ \A c \in openC : c[1] # shell_channel

\* C27: between the kernel's calls every open transport is that of the
\* wrapper the kernel's sshwrapper refers to, so at most one is open, and
\* none is open once do_logout or restart_kernel has run.
KernelOwnsTransports ==
    (~login /\ op = "idle") => openT \subseteq {sshwrapper}

\* the replies the remote shell sends in full without waiting for a
\* pagination space
UnpagedKinds ==
    { r.kind : r \in { q \in CommandReplies(<< >>) : q.held = << >> /\ ~q.endless } }

\* the bytes of the reply, whatever the packets they came in
Stream == Flatten(emitted.pk)

\* C28: the buffer _read_until_prompt returns for a command's reply is the
\* one it returns when the reply's bytes arrive as a single chunk, the
\* decoded stream, however the transport has cut the stream into chunks and
\* whenever the chunks arrive within the deadline.
ChunkingIndependence ==
    (op = "exec" /\ pc = "x_read" /\ rd = "ok" /\ ~Diagnostic /\ before.quiet
       /\ emitted.kind \in UnpagedKinds) =>
        buf = Decode(Stream)

====
